---- MODULE Spec2Model ----
(***************************************************************************)
(* A model of gcsf's FileManager (src/src/gcsf/file_manager.rs): the local *)
(* file tree (an id_tree arena), the three identifier maps, construction    *)
(* (populate, populate_trash), the public mutations and the sync loop.      *)
(* A panic of the Rust code (an unwrap of None, an id_tree internal check)  *)
(* or a walk that never returns ends the manager: pc = "crashed".           *)
(***************************************************************************)
EXTENDS Integers, Sequences, FiniteSets, TLC

VARIABLES
    pc,                     \* "new", "populated", "ready"; "failed" (no manager), "crashed"
    tree,                   \* FileManager.tree: the id_tree arena
    files,                  \* FileManager.files: inode -> File
    node_ids,               \* FileManager.node_ids: inode -> NodeId
    drive_ids,              \* FileManager.drive_ids: DriveId -> inode
    last_inode,             \* FileManager.last_inode
    issued,                 \* the values next_available_inode returned, in order
    since_last_sync,        \* SystemTime::now() - last_sync, saturated at sync_interval
    rename_identical_files, \* FileManager.rename_identical_files (configuration)
    listing,                \* what DriveFacade::get_all_files will return at construction
    ops,                    \* the number of public calls made so far
    last_op                 \* the last public call: its name, argument and result,
                            \* and the requests it made to the DriveFacade

vars == <<pc, tree, files, node_ids, drive_ids, last_inode, issued,
          since_last_sync, rename_identical_files, listing, ops, last_op>>

----------------------------------------------------------------------------
(* Program constants *)
ROOT_INODE == 1
TRASH_INODE == 2
SHARED_INODE == 3
ORPHANS_INODE == 4
InitialLastInode == 4

(* Bounds of the model *)
MaxInode == 7
MaxBatch == 1
MaxOps == 2
SyncInterval == 1

(* Remote ids; NoId stands for Option::None *)
NoId == "none"
RootId == "root"
UnknownId == "zzz"
DriveIds == {"a", "b", "c"}
Names == {"n1", "n2"}

----------------------------------------------------------------------------
(* id_tree::Tree<Inode>: an arena of slots (nodes), a stack of free slots   *)
(* that insert reuses, and the root. A NodeId is a slot index; a slot with  *)
(* data = 0 is None. `panic` records an internal expect() that failed.      *)

NoNode == [data |-> 0, parent |-> 0, children |-> <<>>]

EmptyTree == [nodes |-> <<>>, free_ids |-> <<>>, root |-> 0, panic |-> FALSE]

is_valid_node_id(t, id) == id \in 1..Len(t.nodes) /\ t.nodes[id].data # 0

Retain(seq, x) == SelectSeq(seq, LAMBDA y : y # x)

(* Tree::insert_new_node: pops a free slot if there is one, else pushes *)
new_node_id(t) ==
    IF t.free_ids # <<>> THEN t.free_ids[Len(t.free_ids)] ELSE Len(t.nodes) + 1

insert_new_node(t, inode) ==
    IF t.free_ids # <<>>
    THEN [t EXCEPT !.nodes[new_node_id(t)] = [data |-> inode, parent |-> 0, children |-> <<>>],
                   !.free_ids = SubSeq(@, 1, Len(@) - 1)]
    ELSE [t EXCEPT !.nodes = Append(@, [data |-> inode, parent |-> 0, children |-> <<>>])]

(* Tree::set_as_parent_and_child; get_mut_unsafe panics on a None slot *)
set_as_parent_and_child(t, p, c) ==
    IF t.panic THEN t
    ELSE IF ~is_valid_node_id(t, p) \/ ~is_valid_node_id(t, c)
    THEN [t EXCEPT !.panic = TRUE]
    ELSE [t EXCEPT !.nodes[p].children = Append(@, c), !.nodes[c].parent = p]

(* Tree::detach_from_parent *)
detach_from_parent(t, p, c) ==
    IF t.panic THEN t
    ELSE IF ~is_valid_node_id(t, p) THEN [t EXCEPT !.panic = TRUE]
    ELSE [t EXCEPT !.nodes[p].children = Retain(@, c)]

(* Tree::clear_parent *)
clear_parent(t, c) ==
    IF t.panic THEN t
    ELSE IF ~is_valid_node_id(t, c) THEN [t EXCEPT !.panic = TRUE]
    ELSE [t EXCEPT !.nodes[c].parent = 0]

(* Tree::insert(node, AsRoot): the old root becomes a child of the new one *)
tree_insert_as_root(t, inode) ==
    [ok |-> TRUE,
     t |-> [(IF t.root # 0
             THEN set_as_parent_and_child(insert_new_node(t, inode), new_node_id(t), t.root)
             ELSE insert_new_node(t, inode)) EXCEPT !.root = new_node_id(t)],
     id |-> new_node_id(t)]

(* Tree::insert(node, UnderNode(parent)): Err on an invalid parent NodeId *)
tree_insert_under(t, inode, parent) ==
    IF ~is_valid_node_id(t, parent) THEN [ok |-> FALSE, t |-> t, id |-> 0]
    ELSE [ok |-> TRUE,
          t |-> set_as_parent_and_child(insert_new_node(t, inode), parent, new_node_id(t)),
          id |-> new_node_id(t)]

(* Tree::find_subtree_root_between_ids: the ancestor-or-self of `lower` that *)
(* is a child of `upper`; 0 = None, -1 = a None slot was read or the walk    *)
(* went round a parent cycle (the Rust recursion never returns).            *)
RECURSIVE find_subtree_root_between_ids(_, _, _, _)
find_subtree_root_between_ids(t, lower, upper, fuel) ==
    IF fuel = 0 \/ ~is_valid_node_id(t, lower) THEN -1
    ELSE IF t.nodes[lower].parent = 0 THEN 0
    ELSE IF t.nodes[lower].parent = upper THEN lower
    ELSE find_subtree_root_between_ids(t, t.nodes[lower].parent, upper, fuel - 1)

(* move_node_to_parent, the root moved "down": its child `sub` on the way to *)
(* the target becomes the root                                               *)
move_root_down(t, node, parent, sub) ==
    set_as_parent_and_child(
        [clear_parent(detach_from_parent(t, node, sub), sub) EXCEPT !.root = sub],
        parent, node)

(* move_node_to_parent, another node moved "down": `sub` takes its place *)
move_node_down(t, node, parent, sub, old) ==
    set_as_parent_and_child(
        detach_from_parent(
            IF old # 0
            THEN set_as_parent_and_child(detach_from_parent(t, old, node), old, sub)
            ELSE clear_parent(t, sub),
            node, sub),
        parent, node)

(* move_node_to_parent, a move "across" or "up" *)
move_node_across(t, node, parent, old) ==
    set_as_parent_and_child(
        IF old # 0 THEN detach_from_parent(t, old, node) ELSE t, parent, node)

(* Tree::move_node_to_parent, given what find_subtree_root_between_ids found *)
move_node_with(t, node, parent, sub) ==
    IF sub = -1 THEN [t EXCEPT !.panic = TRUE]
    ELSE IF sub # 0 /\ t.root = node THEN move_root_down(t, node, parent, sub)
    ELSE IF sub # 0 THEN move_node_down(t, node, parent, sub, t.nodes[node].parent)
    ELSE move_node_across(t, node, parent, t.nodes[node].parent)

(* Tree::move_node_to_parent *)
move_node_to_parent(t, node, parent) ==
    move_node_with(t, node, parent,
                   find_subtree_root_between_ids(t, parent, node, Len(t.nodes) + 1))

(* Tree::move_node(node, ToParent(parent)): Err on an invalid NodeId *)
tree_move_node(t, node, parent) ==
    IF ~is_valid_node_id(t, node) \/ ~is_valid_node_id(t, parent)
    THEN [ok |-> FALSE, t |-> t, id |-> 0]
    ELSE [ok |-> TRUE, t |-> move_node_to_parent(t, node, parent), id |-> node]

(* Tree::remove_node_internal: the slot is freed, the parent forgets the node *)
forget_child(t, p, id) ==
    IF p = 0 THEN t
    ELSE IF ~is_valid_node_id(t, p) THEN [t EXCEPT !.panic = TRUE]
    ELSE [t EXCEPT !.nodes[p].children = Retain(@, id)]

remove_node_internal(t, id) ==
    IF t.panic THEN t
    ELSE IF ~is_valid_node_id(t, id) THEN [t EXCEPT !.panic = TRUE]
    ELSE forget_child([t EXCEPT !.root = IF @ = id THEN 0 ELSE @,
                                !.nodes[id] = NoNode,
                                !.free_ids = Append(@, id)],
                      t.nodes[id].parent, id)

(* Tree::remove_node_drop_children: children first, in order, then the node *)
RECURSIVE remove_node_drop_children(_, _)
RECURSIVE remove_each(_, _, _)
remove_each(t, kids, i) ==
    IF i > Len(kids) THEN t
    ELSE remove_each(remove_node_drop_children(t, kids[i]), kids, i + 1)

remove_node_drop_children(t, id) ==
    IF t.panic THEN t
    ELSE IF ~is_valid_node_id(t, id) THEN [t EXCEPT !.panic = TRUE]
    ELSE remove_node_internal(
             remove_each([t EXCEPT !.nodes[id].children = <<>>],
                         t.nodes[id].children, 1),
             id)

(* Tree::remove_node(node, DropChildren): Err on an invalid NodeId *)
tree_remove_node(t, id) ==
    IF ~is_valid_node_id(t, id) THEN [ok |-> FALSE, t |-> t, id |-> 0]
    ELSE [ok |-> TRUE, t |-> remove_node_drop_children(t, id), id |-> id]

----------------------------------------------------------------------------
(* File (gcsf::File) and its remote descriptor (drive3::File). Only the     *)
(* fields the manager reads are kept: the descriptor's id, name, first      *)
(* parent and trashed flag; identical_name_id = 0 stands for None.          *)

NoDriveFile == [some |-> FALSE, id |-> NoId, name |-> "", parent |-> NoId, trashed |-> FALSE]

DriveFile(id, name, parent, trashed) ==
    [some |-> TRUE, id |-> id, name |-> name, parent |-> parent, trashed |-> trashed]

(* File::from_drive_file *)
from_drive_file(inode, d) ==
    [inode |-> inode, name |-> d.name, identical_name_id |-> 0, drive_file |-> d]

(* File::name: the name as shown, the stored name and the duplicate suffix *)
file_name(f) == <<f.name, f.identical_name_id>>

(* File::drive_id: the descriptor's id, None without a descriptor *)
file_drive_id(f) == IF f.drive_file.some THEN f.drive_file.id ELSE NoId

(* File::drive_parent: the first entry of the descriptor's parents *)
file_drive_parent(f) == IF f.drive_file.some THEN f.drive_file.parent ELSE NoId

(* File::is_trashed *)
file_is_trashed_flag(f) == f.drive_file.some /\ f.drive_file.trashed

(* File::set_drive_id *)
set_drive_id(f, id) == [f EXCEPT !.drive_file.id = id]

(* File::set_trashed *)
set_trashed(f, b) == [f EXCEPT !.drive_file.trashed = b]

----------------------------------------------------------------------------
(* FileId: the four reference forms; NoRef is Option::None *)
InodeRef(i) == [kind |-> "Inode", inode |-> i, id |-> NoId, node |-> 0, name |-> <<"", 0>>]
DriveRef(d) == [kind |-> "DriveId", inode |-> 0, id |-> d, node |-> 0, name |-> <<"", 0>>]
NodeRef(n) == [kind |-> "NodeId", inode |-> 0, id |-> NoId, node |-> n, name |-> <<"", 0>>]
ParentAndName(p, n) == [kind |-> "ParentAndName", inode |-> p, id |-> NoId, node |-> 0, name |-> n]
NoRef == [kind |-> "None", inode |-> 0, id |-> NoId, node |-> 0, name |-> <<"", 0>>]

MapPut(m, k, v) == [x \in DOMAIN m \cup {k} |-> IF x = k THEN v ELSE m[x]]
MapDel(m, k) == [x \in DOMAIN m \ {k} |-> m[x]]
MapGet(m, k) == IF k \in DOMAIN m THEN m[k] ELSE 0

(* The manager's fields as one value, for the operators below *)
St == [tree |-> tree, files |-> files, node_ids |-> node_ids,
       drive_ids |-> drive_ids, last_inode |-> last_inode, issued |-> issued,
       calls |-> <<>>]

(* a request to the DriveFacade is made: s.calls lists the requests of the  *)
(* public call under way                                                    *)
Called(s, call) == [s EXCEPT !.calls = Append(@, call)]

(* A call's outcome: Ok, Err or a panic, and the fields as the call left them *)
Ok(s) == [res |-> "ok", s |-> s]
Err(s) == [res |-> "err", s |-> s]
Panic(s) == [res |-> "panic", s |-> s]

(* A function's body is a chain of steps over a record c of its locals, with *)
(* c.res the outcome so far and c.s the fields; a step does nothing once     *)
(* c.res is no longer "ok". Ret is what the caller sees.                     *)
Ret(c) == [res |-> c.res, s |-> c.s]

(* `let k = v?` for an Option<inode or NodeId>: 0 = None, -1 = panic *)
Some(c, k, v) ==
    IF c.res # "ok" THEN c
    ELSE IF v = -1 THEN [c EXCEPT !.res = "panic"]
    ELSE IF v = 0 THEN [c EXCEPT !.res = "err"]
    ELSE [c EXCEPT ![k] = v]

(* `let k = v?` for an Option<DriveId>: NoId = None *)
SomeId(c, k, v) ==
    IF c.res # "ok" THEN c
    ELSE IF v = "panic" THEN [c EXCEPT !.res = "panic"]
    ELSE IF v = NoId THEN [c EXCEPT !.res = "err"]
    ELSE [c EXCEPT ![k] = v]

(* `self.tree.op(..)?`: Err on an invalid NodeId, a panic inside id_tree *)
TreeDone(c, r) ==
    IF ~r.ok THEN [c EXCEPT !.res = "err"]
    ELSE IF r.t.panic THEN [c EXCEPT !.res = "panic"]
    ELSE [c EXCEPT !.s.tree = r.t, !.node_id = r.id]

(* `self.f(..)?`: the callee's outcome and fields become the caller's *)
Call(c, r) == [c EXCEPT !.res = r.res, !.s = r.s]

(* `if let Err(e) = self.f(..) { error!(..) }`: only a panic gets out *)
Logged(c, r) == [c EXCEPT !.res = IF r.res = "panic" THEN "panic" ELSE "ok", !.s = r.s]

(* a faulty next_available_inode that returns last_inode + 1 without storing *)
(* it: C9 does not hold of it                                                *)
next_inode_not_stored(s) == [s EXCEPT !.issued = Append(@, s.last_inode + 1)]

(* next_available_inode *)
next_available_inode(s) ==
    [s EXCEPT !.last_inode = @ + 1, !.issued = Append(@, s.last_inode + 1)]

----------------------------------------------------------------------------
(* Lookups. An inode or NodeId result is 0 for None and -1 for a panic.     *)

(* get_children's map/filter: the children's inodes that have a File *)
children_with_file(s, ch) ==
    SelectSeq([i \in 1..Len(ch) |-> IF is_valid_node_id(s.tree, ch[i])
                                     THEN s.tree.nodes[ch[i]].data ELSE 0],
              LAMBDA x : x \in DOMAIN s.files)

(* get_children after get_node_id: tree.children(..).unwrap() panics on a   *)
(* NodeId that is not in the tree                                            *)
children_of_node(s, n) ==
    IF n = -1 THEN [res |-> "panic", kids |-> <<>>]
    ELSE IF n = 0 THEN [res |-> "none", kids |-> <<>>]
    ELSE IF ~is_valid_node_id(s.tree, n) THEN [res |-> "panic", kids |-> <<>>]
    ELSE [res |-> "some", kids |-> children_with_file(s, s.tree.nodes[n].children)]

first_hit(hits) == IF hits = <<>> THEN 0 ELSE hits[1]

(* get_inode's find over the children of the parent *)
first_named(s, c, name) ==
    IF c.res = "panic" THEN -1
    ELSE IF c.res = "none" THEN 0
    ELSE first_hit(SelectSeq(c.kids, LAMBDA k : file_name(s.files[k]) = name))

(* get_inode *)
get_inode(s, fid) ==
    CASE fid.kind = "Inode" -> fid.inode
      [] fid.kind = "DriveId" -> MapGet(s.drive_ids, fid.id)
      [] fid.kind = "NodeId" ->
            IF is_valid_node_id(s.tree, fid.node) THEN s.tree.nodes[fid.node].data ELSE 0
      [] OTHER ->
            first_named(s, children_of_node(s, MapGet(s.node_ids, fid.inode)), fid.name)

node_of_inode(s, i) == IF i <= 0 THEN i ELSE MapGet(s.node_ids, i)

(* get_node_id: the unwrap of an unknown DriveId panics *)
get_node_id(s, fid) ==
    CASE fid.kind = "Inode" -> MapGet(s.node_ids, fid.inode)
      [] fid.kind = "DriveId" ->
            IF fid.id \in DOMAIN s.drive_ids
            THEN MapGet(s.node_ids, s.drive_ids[fid.id]) ELSE -1
      [] fid.kind = "NodeId" -> fid.node
      [] OTHER -> node_of_inode(s, get_inode(s, fid))

(* get_children: "none", "some" with the children's inodes, or "panic" *)
get_children(s, fid) == children_of_node(s, get_node_id(s, fid))

file_of_inode(s, i) == IF i = -1 THEN -1 ELSE IF i \in DOMAIN s.files THEN i ELSE 0

(* get_file / get_mut_file: the inode of the File found *)
get_file(s, fid) == file_of_inode(s, get_inode(s, fid))

drive_id_of_file(s, f) ==
    IF f = -1 THEN "panic" ELSE IF f = 0 THEN NoId ELSE file_drive_id(s.files[f])

(* get_drive_id: NoId = None, "panic" *)
get_drive_id(s, fid) == drive_id_of_file(s, get_file(s, fid))

(* contains: TRUE, FALSE, or "panic" for a (parent, name) lookup that aborts *)
contains(s, fid) ==
    CASE fid.kind = "Inode" -> fid.inode \in DOMAIN s.node_ids
      [] fid.kind = "DriveId" -> fid.id \in DOMAIN s.drive_ids
      [] fid.kind = "NodeId" -> is_valid_node_id(s.tree, fid.node)
      [] OTHER -> IF get_file(s, fid) = -1 THEN "panic" ELSE get_file(s, fid) > 0

count_named(s, f, c) ==
    IF f = -1 THEN -2
    ELSE IF f = 0 THEN -1
    ELSE IF c.res = "panic" THEN -2
    ELSE IF c.res = "none" THEN -1
    ELSE Len(SelectSeq(c.kids, LAMBDA k : s.files[k].name = s.files[f].name))

(* get_sibling_count: the count, -1 = Err, -2 = panic *)
get_sibling_count(s, id, parent) ==
    count_named(s, get_file(s, id), get_children(s, parent))

----------------------------------------------------------------------------
(* The local mutations *)

(* a faulty end of add_file_locally that leaves drive_ids alone: C4 does not *)
(* hold of it                                                                *)
RecordFile_without_drive_id(s, file, node_id) ==
    [s EXCEPT !.node_ids = MapPut(@, file.inode, node_id),
              !.files = MapPut(@, file.inode, file)]

(* the three inserts that end add_file_locally *)
RecordFile(s, file, node_id) ==
    [s EXCEPT !.node_ids = MapPut(@, file.inode, node_id),
              !.drive_ids = IF file_drive_id(file) # NoId
                            THEN MapPut(@, file_drive_id(file), file.inode) ELSE @,
              !.files = MapPut(@, file.inode, file)]

(* add_file_locally: the parent's NodeId *)
afl_parent(c) ==
    IF c.parent = NoRef THEN c
    ELSE Some(c, "parent_id", get_node_id(c.s, c.parent))

(* add_file_locally: the duplicate suffix; unwrap_or_default turns Err into 0 *)
afl_with_count(c, count) ==
    IF count = -2 THEN [c EXCEPT !.res = "panic"]
    ELSE [c EXCEPT !.file.identical_name_id = IF count > 1 THEN count ELSE 0]

afl_count(c) ==
    IF c.res # "ok" \/ c.parent = NoRef \/ ~rename_identical_files THEN c
    ELSE afl_with_count(c, get_sibling_count(c.s, InodeRef(c.file.inode), c.parent))

(* add_file_locally: the insert into the tree, as root when there is no parent *)
afl_insert(c) ==
    IF c.res # "ok" THEN c
    ELSE TreeDone(c, IF c.parent = NoRef
                     THEN tree_insert_as_root(c.s.tree, c.file.inode)
                     ELSE tree_insert_under(c.s.tree, c.file.inode, c.parent_id))

afl_record(c) ==
    IF c.res # "ok" THEN c
    ELSE [c EXCEPT !.s = RecordFile(c.s, c.file, c.node_id)]

(* add_file_locally; parent = NoRef is Option::None *)
add_file_locally(s, file, parent) ==
    Ret(afl_record(afl_insert(afl_count(afl_parent(
        [res |-> "ok", s |-> s, file |-> file, parent |-> parent,
         parent_id |-> 0, node_id |-> 0])))))

(* move_locally *)
ml_current(c) == Some(c, "current_node", get_node_id(c.s, c.id))

ml_target(c) == Some(c, "target_node", get_node_id(c.s, c.new_parent))

ml_move(c) ==
    IF c.res # "ok" THEN c
    ELSE TreeDone(c, tree_move_node(c.s.tree, c.current_node, c.target_node))

ml_with_count(c, count, f) ==
    IF count = -2 THEN [c EXCEPT !.res = "panic"]
    ELSE IF count = -1 THEN [c EXCEPT !.res = "err"]
    ELSE IF f = -1 THEN [c EXCEPT !.res = "panic"]
    ELSE IF f = 0 THEN [c EXCEPT !.res = "err"]
    ELSE [c EXCEPT !.s.files[f].identical_name_id = IF count > 1 THEN count ELSE 0]

ml_count(c) ==
    IF c.res # "ok" \/ ~rename_identical_files THEN c
    ELSE ml_with_count(c, get_sibling_count(c.s, c.id, c.new_parent), get_file(c.s, c.id))

move_locally(s, id, new_parent) ==
    Ret(ml_count(ml_move(ml_target(ml_current(
        [res |-> "ok", s |-> s, id |-> id, new_parent |-> new_parent,
         current_node |-> 0, target_node |-> 0, node_id |-> 0])))))

(* a faulty end of delete_locally that keeps the handle: C3 does not hold of *)
(* it                                                                        *)
ForgetFile_keeps_handle(s, inode, drive_id) ==
    [s EXCEPT !.files = MapDel(@, inode),
              !.drive_ids = MapDel(@, drive_id)]

(* the three removes that end delete_locally *)
ForgetFile(s, inode, drive_id) ==
    [s EXCEPT !.files = MapDel(@, inode),
              !.node_ids = MapDel(@, inode),
              !.drive_ids = MapDel(@, drive_id)]

(* delete_locally *)
dl_node(c) == Some(c, "node_id", get_node_id(c.s, c.id))

dl_inode(c) == Some(c, "inode", get_inode(c.s, c.id))

dl_drive(c) == SomeId(c, "drive_id", get_drive_id(c.s, c.id))

dl_remove(c) ==
    IF c.res # "ok" THEN c
    ELSE TreeDone(c, tree_remove_node(c.s.tree, c.node_id))

dl_forget(c) ==
    IF c.res # "ok" THEN c
    ELSE [c EXCEPT !.s = ForgetFile(c.s, c.inode, c.drive_id)]

delete_locally(s, id) ==
    Ret(dl_forget(dl_remove(dl_drive(dl_inode(dl_node(
        [res |-> "ok", s |-> s, id |-> id, node_id |-> 0, inode |-> 0,
         drive_id |-> NoId]))))))

(* a request `call` to the DriveFacade that returns Ok (df_ok) or Err *)
Remote(c, call, df_ok) ==
    IF c.res # "ok" THEN c
    ELSE IF df_ok THEN [c EXCEPT !.s = Called(@, call)]
    ELSE [c EXCEPT !.s = Called(@, call), !.res = "err"]

(* delete; df_ok: delete_permanently succeeded *)
del_drive(c) == SomeId(c, "drive_id", get_drive_id(c.s, c.id))

del_local(c) == IF c.res # "ok" THEN c ELSE Call(c, delete_locally(c.s, c.id))

del_remote(c, df_ok) == Remote(c, <<"delete_permanently", c.drive_id>>, df_ok)

delete(s, id, df_ok) ==
    Ret(del_remote(del_local(del_drive(
        [res |-> "ok", s |-> s, id |-> id, drive_id |-> NoId])), df_ok))

(* move_file_to_trash; df_ok: move_to_trash succeeded *)
mt_node(c) == Some(c, "node_id", get_node_id(c.s, c.id))

mt_drive(c) == SomeId(c, "drive_id", get_drive_id(c.s, c.id))

mt_trash(c) == Some(c, "trash_id", get_node_id(c.s, InodeRef(TRASH_INODE)))

mt_move(c) ==
    IF c.res # "ok" THEN c
    ELSE TreeDone(c, tree_move_node(c.s.tree, c.node_id, c.trash_id))

mt_mark(c, f) ==
    IF f = -1 THEN [c EXCEPT !.res = "panic"]
    ELSE IF f = 0 THEN [c EXCEPT !.res = "err"]
    ELSE [c EXCEPT !.s.files[f] = set_trashed(@, TRUE)]

mt_call(c, df_ok) == Remote(c, <<"move_to_trash", c.drive_id>>, df_ok)

mt_remote(c, also_on_drive, df_ok) ==
    IF c.res # "ok" \/ ~also_on_drive THEN c
    ELSE mt_call(mt_mark(c, get_file(c.s, DriveRef(c.drive_id))), df_ok)

move_file_to_trash(s, id, also_on_drive, df_ok) ==
    Ret(mt_remote(mt_move(mt_trash(mt_drive(mt_node(
        [res |-> "ok", s |-> s, id |-> id, node_id |-> 0, drive_id |-> NoId,
         trash_id |-> 0])))), also_on_drive, df_ok))

(* file_is_trashed: "true", "false", "err" or "panic" *)
trashed_of_file(s, f) ==
    IF f = -1 THEN "panic"
    ELSE IF f = 0 THEN "err"
    ELSE IF file_is_trashed_flag(s.files[f]) THEN "true" ELSE "false"

file_is_trashed(s, id) == trashed_of_file(s, get_file(s, id))

(* rename; df_ok: move_to succeeded *)
rn_inode(c) == Some(c, "inode", get_inode(c.s, c.id))

rn_current(c) == Some(c, "current_node", get_node_id(c.s, InodeRef(c.inode)))

rn_target(c) == Some(c, "target_node", get_node_id(c.s, InodeRef(c.new_parent)))

rn_move(c) ==
    IF c.res # "ok" THEN c
    ELSE TreeDone(c, tree_move_node(c.s.tree, c.current_node, c.target_node))

rn_with_count(c, count, f) ==
    IF count = -2 THEN [c EXCEPT !.res = "panic"]
    ELSE IF count = -1 THEN [c EXCEPT !.res = "err"]
    ELSE IF f = -1 THEN [c EXCEPT !.res = "panic"]
    ELSE IF f = 0 THEN [c EXCEPT !.res = "err"]
    ELSE [c EXCEPT !.s.files[f].name = c.new_name,
                   !.s.files[f].identical_name_id = IF count > 0 THEN count ELSE 0]

rn_count(c) ==
    IF c.res # "ok" \/ ~rename_identical_files THEN c
    ELSE rn_with_count(c, get_sibling_count(c.s, InodeRef(c.inode), InodeRef(c.new_parent)),
                       get_file(c.s, InodeRef(c.inode)))

rn_drive(c) == SomeId(c, "drive_id", get_drive_id(c.s, InodeRef(c.inode)))

rn_parent(c) == SomeId(c, "parent_id", get_drive_id(c.s, InodeRef(c.new_parent)))

rn_remote(c, df_ok) ==
    Remote(c, <<"move_to", c.drive_id, c.parent_id, c.new_name>>, df_ok)

rename(s, id, new_parent, new_name, df_ok) ==
    Ret(rn_remote(rn_parent(rn_drive(rn_count(rn_move(rn_target(rn_current(rn_inode(
        [res |-> "ok", s |-> s, id |-> id, new_parent |-> new_parent,
         new_name |-> new_name, inode |-> 0, current_node |-> 0, target_node |-> 0,
         node_id |-> 0, drive_id |-> NoId, parent_id |-> NoId]))))))), df_ok))

(* a faulty create_file that forgets to store the returned id in the File:   *)
(* C15 does not hold of it                                                   *)
create_file_without_id(s, file, parent, new_id) ==
    IF ~file.drive_file.some THEN Panic(s)
    ELSE IF new_id = NoId
    THEN Err(Called(s, <<"create", file.drive_file.name, file.drive_file.parent>>))
    ELSE add_file_locally(
             Called(s, <<"create", file.drive_file.name, file.drive_file.parent>>),
             file, parent)

(* a faulty create_file that inserts locally before it asks the facade:      *)
(* C16 does not hold of it                                                   *)
create_file_adds_first(s, file, parent, new_id) ==
    IF ~file.drive_file.some THEN Panic(s)
    ELSE IF new_id = NoId
    THEN Err(Called(add_file_locally(s, file, parent).s,
                    <<"create", file.drive_file.name, file.drive_file.parent>>))
    ELSE add_file_locally(
             Called(s, <<"create", file.drive_file.name, file.drive_file.parent>>),
             set_drive_id(file, new_id), parent)

(* create_file; new_id: the id DriveFacade::create returned, NoId when it failed *)
create_file(s, file, parent, new_id) ==
    IF ~file.drive_file.some THEN Panic(s)
    ELSE IF new_id = NoId
    THEN Err(Called(s, <<"create", file.drive_file.name, file.drive_file.parent>>))
    ELSE add_file_locally(
             Called(s, <<"create", file.drive_file.name, file.drive_file.parent>>),
             set_drive_id(file, new_id), parent)

(* write: get_drive_id(&id).unwrap(), then the facade's write *)
wr_call(s, drive_id) ==
    IF drive_id = "panic" \/ drive_id = NoId THEN Panic(s)
    ELSE Ok(Called(s, <<"write", drive_id>>))

write(s, id) == wr_call(s, get_drive_id(s, id))

----------------------------------------------------------------------------
(* sync: one change of the batch. "ok" = go on with the next change, "err" = *)
(* sync returns the error (the `?` after add_file_locally), "panic".         *)

Change(file_id, d, removed) ==
    [file_id |-> file_id, has_file |-> TRUE, removed |-> removed, file |-> d]

ChangeWithoutFile(file_id) ==
    [file_id |-> file_id, has_file |-> FALSE, removed |-> TRUE, file |-> NoDriveFile]

(* the new-file branch, the inode already taken *)
sy_add(s, ch) ==
    IF ch.file.parent = NoId THEN Panic(s)
    ELSE add_file_locally(s, from_drive_file(s.last_inode, ch.file),
                          DriveRef(ch.file.parent))

sy_new(c) ==
    IF c.res # "ok" \/ contains(c.s, c.id) THEN c
    ELSE Call(c, sy_add(next_available_inode(c.s), c.ch))

(* the last branch: the File is rebuilt, then moved under its first parent *)
sy_reparent(c, f) ==
    IF file_drive_parent(c.s.files[f]) = NoId THEN [c EXCEPT !.res = "panic"]
    ELSE Logged(c, move_locally(c.s, c.id, DriveRef(file_drive_parent(c.s.files[f]))))

sy_update(c, f) ==
    IF f = -1 THEN [c EXCEPT !.res = "panic"]
    ELSE IF f = 0 THEN c
    ELSE sy_reparent([c EXCEPT !.s.files[f] = from_drive_file(f, c.ch.file)], f)

(* the branches after the new-file branch *)
sy_known(c) ==
    IF c.res # "ok" THEN c
    ELSE IF c.ch.file.trashed
    THEN Logged(c, move_file_to_trash(c.s, c.id, FALSE, TRUE))
    ELSE IF c.ch.removed THEN Logged(c, delete_locally(c.s, c.id))
    ELSE sy_update(c, get_file(c.s, c.id))

(* the loop body *)
apply_change(s, ch) ==
    IF ~ch.has_file THEN Ok(s)
    ELSE Ret(sy_known(sy_new(
             [res |-> "ok", s |-> s, ch |-> ch, id |-> DriveRef(ch.file_id)])))

(* a faulty loop that applies the batch from its last change to its first:  *)
(* C24 does not hold of it                                                   *)
RECURSIVE apply_changes_reversed(_, _, _)
RECURSIVE sy_continue_reversed(_, _, _)
sy_continue_reversed(r, batch, i) ==
    IF r.res # "ok" THEN r ELSE apply_changes_reversed(r.s, batch, i)

apply_changes_reversed(s, batch, i) ==
    IF i > Len(batch) THEN Ok(s)
    ELSE sy_continue_reversed(apply_change(s, batch[Len(batch) + 1 - i]), batch, i + 1)

(* the loop of sync over the batch get_all_changes returned *)
RECURSIVE apply_changes(_, _, _)
RECURSIVE sy_continue(_, _, _)
sy_continue(r, batch, i) ==
    IF r.res # "ok" THEN r ELSE apply_changes(r.s, batch, i)

apply_changes(s, batch, i) ==
    IF i > Len(batch) THEN Ok(s)
    ELSE sy_continue(apply_change(s, batch[i]), batch, i + 1)

----------------------------------------------------------------------------
(* Construction *)

(* new_root_file: the root carries the remote root's id *)
new_root_file ==
    [inode |-> ROOT_INODE, name |-> ".", identical_name_id |-> 0,
     drive_file |-> [some |-> TRUE, id |-> RootId, name |-> "", parent |-> NoId,
                     trashed |-> FALSE]]

(* new_special_dir with a preferred inode: no descriptor *)
new_special_dir(name, inode) ==
    [inode |-> inode, name |-> name, identical_name_id |-> 0, drive_file |-> NoDriveFile]

(* create_special_dirs *)
csd_shared(r) ==
    IF r.res # "ok" THEN r
    ELSE add_file_locally(r.s, new_special_dir("Shared with me", SHARED_INODE),
                          InodeRef(ROOT_INODE))

csd_orphans(r) ==
    IF r.res # "ok" THEN r
    ELSE add_file_locally(r.s, new_special_dir("Orphans", ORPHANS_INODE),
                          InodeRef(ROOT_INODE))

create_special_dirs(s) ==
    csd_orphans(csd_shared(add_file_locally(s, new_root_file, NoRef)))

(* populate's map over the listing: every listed object gets its inode and  *)
(* its File before the first one is added                                   *)
number_one(s, fs, d) == [s |-> s, files |-> Append(fs, from_drive_file(s.last_inode, d))]

RECURSIVE number_files(_, _, _)
number_files(n, ds, i) ==
    IF i > Len(ds) THEN n
    ELSE number_files(number_one(next_available_inode(n.s), n.files, ds[i]), ds, i + 1)

(* populate: "Add everything to Orphans dir initially" *)
RECURSIVE add_each(_, _, _)
add_each(r, fs, i) ==
    IF r.res # "ok" \/ i > Len(fs) THEN r
    ELSE add_each(add_file_locally(r.s, fs[i], InodeRef(ORPHANS_INODE)), fs, i + 1)

pa_add(n) == add_each(Ok(n.s), n.files, 1)

pa_files(r, ds, df_ok) ==
    IF r.res # "ok" THEN r
    ELSE IF ~df_ok THEN Err(r.s)
    ELSE pa_add(number_files([s |-> r.s, files |-> <<>>], ds, 1))

(* populate up to the projection pass; df_ok: get_all_files succeeded *)
populate_adds(s, ds, df_ok) == pa_files(create_special_dirs(s), ds, df_ok)

(* the files the projection pass of populate will move *)
MoveCandidates(s) ==
    {i \in DOMAIN s.files :
        /\ file_drive_parent(s.files[i]) # NoId
        /\ contains(s, DriveRef(file_drive_parent(s.files[i])))}

(* the orders in which a HashMap may iterate over the keys S *)
RECURSIVE Orders(_)
Orders(S) ==
    IF S = {} THEN {<<>>}
    ELSE UNION {{<<x>> \o o : o \in Orders(S \ {x})} : x \in S}

(* the projection pass: errors are logged *)
RECURSIVE move_all(_, _, _)
move_all(r, order, i) ==
    IF r.res # "ok" \/ i > Len(order) THEN r
    ELSE move_all(Logged(r, move_locally(r.s, InodeRef(order[i]),
                                         DriveRef(file_drive_parent(r.s.files[order[i]])))),
                  order, i + 1)

(* a faulty projection pass that stops after its first move: C10 does not   *)
(* hold of it                                                                *)
populate_moves_first_only(r, order) ==
    move_all(r, IF order = <<>> THEN order ELSE <<order[1]>>, 1)

(* populate after the adds, with the order of the pass *)
populate_moves(r, order) == move_all(r, order, 1)

(* populate_trash: the listed trashed objects, one by one *)
pt_add(s, d) ==
    add_file_locally(s, from_drive_file(s.last_inode, d), InodeRef(TRASH_INODE))

RECURSIVE add_trashed(_, _, _)
add_trashed(r, ds, i) ==
    IF r.res # "ok" \/ i > Len(ds) THEN r
    ELSE add_trashed(pt_add(next_available_inode(r.s), ds[i]), ds, i + 1)

pt_files(r, ds, df_ok) ==
    IF r.res # "ok" THEN r
    ELSE IF ~df_ok THEN Err(r.s)
    ELSE add_trashed(r, ds, 1)

(* populate_trash; df_ok: get_all_files succeeded *)
populate_trash(s, ds, df_ok) ==
    pt_files(add_file_locally(s, new_special_dir("Trash", TRASH_INODE), DriveRef(RootId)),
             ds, df_ok)

----------------------------------------------------------------------------
(* Inputs *)

DescName == "n1"

(* the parents a listed or changed descriptor may name; NoId: no parents *)
DescParents == {RootId, "a", "b", UnknownId, NoId}

(* the sequences of descriptors over distinct ids, none its own parent *)
RECURSIVE DescSeqs(_, _, _)
DescSeqs(ids, parents, trashed) ==
    {<<>>} \cup
    UNION {UNION {{<<DriveFile(i, DescName, p, trashed)>> \o rest :
                      rest \in DescSeqs(ids \ {i}, parents, trashed)} :
                  p \in parents \ {i}} :
           i \in ids}

IdsOf(ds) == {ds[i].id : i \in 1..Len(ds)}

(* the listings get_all_files may return: `files` the non-trashed objects,  *)
(* `trash` the trashed ones                                                 *)
Listings ==
    {[files |-> fs, trash |-> ts] :
        fs \in {<<>>,
                <<DriveFile("a", DescName, RootId, FALSE)>>,
                <<DriveFile("a", DescName, RootId, FALSE),
                  DriveFile("b", DescName, "a", FALSE)>>,
                <<DriveFile("a", DescName, UnknownId, FALSE),
                  DriveFile("b", DescName, "a", FALSE)>>},
        ts \in {<<>>, <<DriveFile("c", DescName, RootId, TRUE)>>}}

(* the references the callers pass *)
Refs == {InodeRef(i) : i \in 1..MaxInode}

(* the changes get_all_changes may return *)
Changes ==
    {ChangeWithoutFile("a")} \cup
    {Change(d.id, d, rm) :
        d \in UNION {{DriveFile(i, DescName, p, tr) : p \in DescParents \ {i}, tr \in BOOLEAN} :
                     i \in DriveIds},
        rm \in BOOLEAN}

Batches == UNION {[1..n -> Changes] : n \in 0..MaxBatch}

NoOp == [op |-> "none", arg |-> 0, res |-> "ok", calls |-> <<>>]

(* the remote ids no local File carries *)
FreshIds ==
    DriveIds \ (DOMAIN drive_ids \cup {file_drive_id(files[i]) : i \in DOMAIN files})

----------------------------------------------------------------------------
(* The state machine *)

Init ==
    /\ pc = "new"
    /\ tree = EmptyTree
    /\ files = <<>>
    /\ node_ids = <<>>
    /\ drive_ids = <<>>
    /\ last_inode = InitialLastInode
    /\ issued = <<>>
    /\ since_last_sync = 0
    /\ rename_identical_files \in BOOLEAN
    /\ listing \in Listings
    /\ ops = 0
    /\ last_op = NoOp

(* the manager's fields after a call that returned r *)
Commit(r) ==
    /\ tree' = r.s.tree
    /\ files' = r.s.files
    /\ node_ids' = r.s.node_ids
    /\ drive_ids' = r.s.drive_ids
    /\ last_inode' = r.s.last_inode
    /\ issued' = r.s.issued

(* a step of with_drive_facade returned r: an Err or a panic leaves no manager *)
Constructed(op, arg, r, then) ==
    /\ Commit(r)
    /\ pc' = IF r.res = "ok" THEN then ELSE "failed"
    /\ last_op' = [op |-> op, arg |-> arg, res |-> r.res, calls |-> r.s.calls]

PopulateWith(adds) ==
    \E order \in Orders(MoveCandidates(adds.s)) :
        Constructed("populate", order, populate_moves(adds, order), "populated")

(* with_drive_facade, first half: populate *)
Populate ==
    /\ pc = "new"
    /\ \E df_ok \in BOOLEAN : PopulateWith(populate_adds(St, listing.files, df_ok))
    /\ UNCHANGED <<since_last_sync, rename_identical_files, listing, ops>>

(* with_drive_facade, second half: populate_trash *)
PopulateTrash ==
    /\ pc = "populated"
    /\ \E df_ok \in BOOLEAN :
          Constructed("populate_trash", 0, populate_trash(St, listing.trash, df_ok), "ready")
    /\ listing' = [files |-> <<>>, trash |-> <<>>]
    /\ UNCHANGED <<since_last_sync, rename_identical_files, ops>>

(* a public call returned r *)
Return(op, arg, r) ==
    /\ ops' = ops + 1
    /\ Commit(r)
    /\ pc' = IF r.res = "panic" THEN "crashed" ELSE "ready"
    /\ last_op' = [op |-> op, arg |-> arg, res |-> r.res, calls |-> r.s.calls]

(* the File the caller of create_file builds: a fresh inode, a descriptor   *)
(* without an id that names the parent's remote id                          *)
cf_file(s, name, pid) ==
    [inode |-> s.last_inode, name |-> name, identical_name_id |-> 0,
     drive_file |-> DriveFile(NoId, name, pid, FALSE)]

cf_parent_id(s, parent) == IF parent = NoRef THEN NoId ELSE get_drive_id(s, parent)

CreateFileOf(s, file, parent, new_id) ==
    Return("create_file",
           [inode |-> file.inode, file |-> file, parent |-> parent.inode, new_id |-> new_id],
           create_file(s, file, parent, new_id))

CreateFileWith(s, name, parent, new_id) ==
    CreateFileOf(s, cf_file(s, name, cf_parent_id(s, parent)), parent, new_id)

(* create_file *)
CreateFile ==
    /\ pc = "ready"
    /\ ops < MaxOps
    /\ last_inode < MaxInode
    /\ \E name \in Names, parent \in Refs \cup {NoRef}, new_id \in FreshIds \cup {NoId} :
          CreateFileWith(next_available_inode(St), name, parent, new_id)
    /\ UNCHANGED <<since_last_sync, rename_identical_files, listing>>

(* rename *)
Rename ==
    /\ pc = "ready"
    /\ ops < MaxOps
    /\ \E id \in Refs, new_parent \in 1..MaxInode, new_name \in Names, df_ok \in BOOLEAN :
          Return("rename",
                 [id |-> get_inode(St, id), new_parent |-> new_parent, new_name |-> new_name],
                 rename(St, id, new_parent, new_name, df_ok))
    /\ UNCHANGED <<since_last_sync, rename_identical_files, listing>>

(* delete *)
Delete ==
    /\ pc = "ready"
    /\ ops < MaxOps
    /\ \E id \in Refs, df_ok \in BOOLEAN :
          Return("delete", get_inode(St, id), delete(St, id, df_ok))
    /\ UNCHANGED <<since_last_sync, rename_identical_files, listing>>

(* move_file_to_trash *)
MoveFileToTrash ==
    /\ pc = "ready"
    /\ ops < MaxOps
    /\ \E id \in Refs, also_on_drive \in BOOLEAN, df_ok \in BOOLEAN :
          Return("move_file_to_trash",
                 [id |-> get_inode(St, id), also_on_drive |-> also_on_drive],
                 move_file_to_trash(St, id, also_on_drive, df_ok))
    /\ UNCHANGED <<since_last_sync, rename_identical_files, listing>>

(* a faulty gate that never skips: C11 does not hold of it *)
sync_never_too_early(elapsed) == FALSE

(* sync's gate: now - last_sync < sync_interval *)
sync_too_early(elapsed) == elapsed < SyncInterval

(* sync called before sync_interval has elapsed *)
SyncSkipped ==
    /\ pc = "ready"
    /\ ops < MaxOps
    /\ sync_too_early(since_last_sync)
    /\ ops' = ops + 1
    /\ last_op' = [op |-> "sync", arg |-> <<>>, res |-> "skipped", calls |-> <<>>]
    /\ UNCHANGED <<pc, tree, files, node_ids, drive_ids, last_inode, issued,
                   since_last_sync, rename_identical_files, listing>>

(* sync when get_all_changes fails: last_sync is already advanced *)
SyncFailed ==
    /\ pc = "ready"
    /\ ops < MaxOps
    /\ ~sync_too_early(since_last_sync)
    /\ since_last_sync' = 0
    /\ ops' = ops + 1
    /\ last_op' = [op |-> "sync", arg |-> <<>>, res |-> "err",
                   calls |-> <<<<"get_all_changes">>>>]
    /\ UNCHANGED <<pc, tree, files, node_ids, drive_ids, last_inode, issued,
                   rename_identical_files, listing>>

SyncWith(batch, r) ==
    /\ r.s.last_inode <= MaxInode
    /\ Return("sync", batch, r)

(* sync applying the batch get_all_changes returned *)
Sync ==
    /\ pc = "ready"
    /\ ops < MaxOps
    /\ ~sync_too_early(since_last_sync)
    /\ \E batch \in Batches :
          SyncWith(batch, apply_changes(Called(St, <<"get_all_changes">>), batch, 1))
    /\ since_last_sync' = 0
    /\ UNCHANGED <<rename_identical_files, listing>>

(* write *)
Write ==
    /\ pc = "ready"
    /\ ops < MaxOps
    /\ \E id \in Refs :
          Return("write", [id |-> get_inode(St, id), drive_id |-> get_drive_id(St, id)],
                 write(St, id))
    /\ UNCHANGED <<since_last_sync, rename_identical_files, listing>>

(* time passes *)
Tick ==
    /\ pc = "ready"
    /\ since_last_sync < SyncInterval
    /\ since_last_sync' = since_last_sync + 1
    /\ UNCHANGED <<pc, tree, files, node_ids, drive_ids, last_inode, issued,
                   rename_identical_files, listing, ops, last_op>>

Next ==
    \/ Populate
    \/ PopulateTrash
    \/ CreateFile
    \/ Rename
    \/ Delete
    \/ MoveFileToTrash
    \/ Write
    \/ SyncSkipped
    \/ SyncFailed
    \/ Sync
    \/ Tick

Spec == Init /\ [][Next]_vars

----------------------------------------------------------------------------
(* Populate alone, over every listing of up to three objects with any       *)
(* parents (cycles included) in any order                                   *)

PopulateListings ==
    UNION {{[files |-> fs, trash |-> ts] :
               ts \in IF "c" \in IdsOf(fs) THEN {<<>>}
                      ELSE {<<>>, <<DriveFile("c", DescName, RootId, TRUE)>>}} :
           fs \in DescSeqs(DriveIds, DescParents \cup DriveIds, FALSE)}

InitPopulate ==
    /\ pc = "new"
    /\ tree = EmptyTree
    /\ files = <<>>
    /\ node_ids = <<>>
    /\ drive_ids = <<>>
    /\ last_inode = InitialLastInode
    /\ issued = <<>>
    /\ since_last_sync = 0
    /\ rename_identical_files \in BOOLEAN
    /\ listing \in PopulateListings
    /\ ops = 0
    /\ last_op = NoOp

NextPopulate ==
    \/ Populate
    \/ PopulateTrash

SpecPopulate == InitPopulate /\ [][NextPopulate]_vars

----------------------------------------------------------------------------
(* One sync after construction, over every batch of up to two changes        *)

MaxSyncBatch == 2
MaxSyncs == 1

SyncBatches == UNION {[1..n -> Changes] : n \in 0..MaxSyncBatch}

SyncBatch ==
    /\ pc = "ready"
    /\ ops < MaxSyncs
    /\ ~sync_too_early(since_last_sync)
    /\ \E batch \in SyncBatches :
          SyncWith(batch, apply_changes(Called(St, <<"get_all_changes">>), batch, 1))
    /\ since_last_sync' = 0
    /\ UNCHANGED <<rename_identical_files, listing>>

NextSync ==
    \/ Populate
    \/ PopulateTrash
    \/ Tick
    \/ SyncBatch

SpecSync == Init /\ [][NextSync]_vars

----------------------------------------------------------------------------
(* Reading the tree *)

LiveNodes == {n \in 1..Len(tree.nodes) : tree.nodes[n].data # 0}

NodesHolding(i) == {n \in LiveNodes : tree.nodes[n].data = i}

(* the node the handle of inode i names, 0 when there is no live one *)
HandleNode(i) ==
    IF i \in DOMAIN node_ids /\ is_valid_node_id(tree, node_ids[i]) THEN node_ids[i] ELSE 0

(* the nodes met going up from n by the parent links, n excluded *)
RECURSIVE AncestorsFrom(_, _)
AncestorsFrom(n, fuel) ==
    IF fuel = 0 \/ ~is_valid_node_id(tree, n) \/ tree.nodes[n].parent = 0 THEN {}
    ELSE {tree.nodes[n].parent} \cup AncestorsFrom(tree.nodes[n].parent, fuel - 1)

Ancestors(n) == AncestorsFrom(n, Len(tree.nodes))

(* inode i is held by a node that is a child of the node holding inode p *)
DirectChild(i, p) ==
    /\ HandleNode(i) # 0
    /\ HandleNode(p) # 0
    /\ tree.nodes[HandleNode(i)].data = i
    /\ tree.nodes[HandleNode(p)].data = p
    /\ tree.nodes[HandleNode(i)].parent = HandleNode(p)
    /\ \E k \in 1..Len(tree.nodes[HandleNode(p)].children) :
          tree.nodes[HandleNode(p)].children[k] = HandleNode(i)

(* the nodes below node n in tree t, by the children lists *)
RECURSIVE BelowIn(_, _, _)
BelowIn(t, n, fuel) ==
    IF fuel = 0 \/ ~is_valid_node_id(t, n) THEN {}
    ELSE LET kids == {t.nodes[n].children[k] : k \in 1..Len(t.nodes[n].children)}
         IN kids \cup UNION {BelowIn(t, c, fuel - 1) : c \in kids}

(* the manager's fields after the step *)
StNext == [tree |-> tree', files |-> files', node_ids |-> node_ids',
           drive_ids |-> drive_ids', last_inode |-> last_inode', issued |-> issued',
           calls |-> <<>>]

(* the live nodes without a parent *)
TreeRoots == {n \in LiveNodes : tree.nodes[n].parent = 0}

(* the issued inodes that no File holds any more *)
Retired == {issued[k] : k \in 1..Len(issued)} \ DOMAIN files

----------------------------------------------------------------------------
(* The claims *)

(* C1: once the manager is constructed, and after any sequence of public    *)
(* calls, every inode that is a key of `files` has a handle in `node_ids`   *)
(* that names a node now in the tree holding that inode, and exactly one    *)
(* node of the tree holds it.                                               *)
C1_EveryFileOnceInTree ==
    pc = "ready" =>
        \A i \in DOMAIN files :
            /\ HandleNode(i) # 0
            /\ tree.nodes[HandleNode(i)].data = i
            /\ Cardinality(NodesHolding(i)) = 1

(* C2: a step in which delete(X) returns Ok leaves contains(X) false and,   *)
(* for every file that was below X in the tree when delete was called,      *)
(* leaves contains false for its inode and for its remote id.               *)
C2_DeleteDropsDescendants ==
    [][(ops' = ops + 1 /\ last_op'.op = "delete" /\ last_op'.res = "ok") =>
          /\ ~contains(StNext, InodeRef(last_op'.arg))
          /\ \A n \in BelowIn(tree, node_ids[last_op'.arg], Len(tree.nodes)) :
                /\ ~contains(StNext, InodeRef(tree.nodes[n].data))
                /\ (/\ tree.nodes[n].data \in DOMAIN files
                    /\ file_drive_id(files[tree.nodes[n].data]) # NoId)
                   => ~contains(StNext, DriveRef(file_drive_id(files[tree.nodes[n].data])))
      ]_vars

(* C3: in every reachable state `files` and `node_ids` have the same keys.  *)
C3_SameKeys == DOMAIN files = DOMAIN node_ids

(* a delete has returned Ok while files that were added later are held: the *)
(* two maps have both grown and shrunk                                      *)
C3_Witness ==
    /\ pc = "ready"
    /\ last_op.op = "delete"
    /\ last_op.res = "ok"
    /\ last_op.arg \notin DOMAIN files
    /\ \E i \in DOMAIN files : i > InitialLastInode

(* C4: in every reachable state, a File of `files` that carries a remote id *)
(* R has drive_ids[R] equal to its inode.                                   *)
C4_RemoteIdPointsBack ==
    \A i \in DOMAIN files :
        file_drive_id(files[i]) # NoId =>
            /\ file_drive_id(files[i]) \in DOMAIN drive_ids
            /\ drive_ids[file_drive_id(files[i])] = i

(* create_file has returned Ok and the new File carries the id the remote   *)
(* returned                                                                 *)
C4_Witness ==
    /\ pc = "ready"
    /\ last_op.op = "create_file"
    /\ last_op.res = "ok"
    /\ last_op.arg.inode \in DOMAIN files
    /\ file_drive_id(files[last_op.arg.inode]) \in DriveIds

C9_InodesFreshAndIncreasing ==
    /\ \A k \in 1..Len(issued) : issued[k] >= 5
    /\ \A j \in 1..Len(issued), k \in 1..Len(issued) : j < k => issued[j] < issued[k]

(* an issued inode is no longer held (its File was deleted) and an inode    *)
(* issued after it is held                                                  *)
C9_Witness ==
    /\ pc = "ready"
    /\ \E j \in 1..Len(issued), k \in 1..Len(issued) :
          /\ j < k
          /\ issued[j] \in Retired
          /\ issued[k] \in DOMAIN files
          /\ last_op.op \in {"sync", "create_file"}

(* the parent links of a listing do not go round a cycle *)
RECURSIVE ReachesNoCycle(_, _, _)
ReachesNoCycle(ds, id, fuel) ==
    \/ id \notin IdsOf(ds)
    \/ /\ fuel > 0
       /\ \A k \in 1..Len(ds) : ds[k].id = id => ReachesNoCycle(ds, ds[k].parent, fuel - 1)

AcyclicListing(ds) == \A k \in 1..Len(ds) : ReachesNoCycle(ds, ds[k].id, Len(ds))

(* C10: after populate, when the parent links of the listing have no cycle, *)
(* each listed object whose first parent is the remote id of a File held    *)
(* locally is a direct child of that File, and every other listed object is *)
(* a direct child of Orphans, whatever the order of the listing and the     *)
(* order of the projection pass.                                            *)
C10_PopulatePlacesEveryFile ==
    (pc = "populated" /\ AcyclicListing(listing.files)) =>
        \A k \in 1..Len(listing.files) :
            /\ listing.files[k].id \in DOMAIN drive_ids
            /\ IF listing.files[k].parent \in DOMAIN drive_ids
               THEN DirectChild(drive_ids[listing.files[k].id],
                                drive_ids[listing.files[k].parent])
               ELSE DirectChild(drive_ids[listing.files[k].id], ORPHANS_INODE)

(* the pass moved a child before it moved the child's parent *)
C10_Witness ==
    /\ pc = "populated"
    /\ AcyclicListing(listing.files)
    /\ last_op.op = "populate"
    /\ \E p \in 1..Len(last_op.arg), q \in 1..Len(last_op.arg) :
          /\ p < q
          /\ file_drive_parent(files[last_op.arg[p]]) = file_drive_id(files[last_op.arg[q]])

(* C11: a sync call made when less than sync_interval has elapsed since    *)
(* last_sync makes no request to the facade, leaves the tree, the three     *)
(* maps, the inode counter and last_sync as they were, and returns the      *)
(* "not enough time has passed" error.                                      *)
C11_EarlySyncDoesNothing ==
    [][(ops' = ops + 1 /\ last_op'.op = "sync" /\ since_last_sync < SyncInterval) =>
          /\ last_op'.res = "skipped"
          /\ last_op'.calls = <<>>
          /\ UNCHANGED <<pc, tree, files, node_ids, drive_ids, last_inode, since_last_sync>>
      ]_vars

(* a second public call was a sync that came too early and was skipped *)
C11_Witness ==
    /\ pc = "ready"
    /\ ops = 2
    /\ last_op.op = "sync"
    /\ last_op.res = "skipped"
    /\ since_last_sync < SyncInterval

(* C12: a sync that is not skipped and has received its batch returns Ok    *)
(* and leaves the process running, whatever fails while a change is applied *)
(* (a parent id that is not known locally, a move or a delete that fails).  *)
C12_SyncSurvivesFailedChange ==
    (last_op.op = "sync" /\ Len(last_op.arg) > 0) =>
        /\ last_op.res = "ok"
        /\ pc = "ready"

(* C13: after rename(X, P, N) has returned Ok, get_file((P, N)) is the File *)
(* with X's inode, with rename_identical_files enabled or disabled.         *)
C13_RenameThenLookup ==
    (pc = "ready" /\ last_op.op = "rename" /\ last_op.res = "ok") =>
        get_file(St, ParentAndName(last_op.arg.new_parent, <<last_op.arg.new_name, 0>>))
            = last_op.arg.id

(* C14: rename(X, P, N) of a file X that has a remote id into one of the    *)
(* directories the manager always has (the root, Trash, Shared with me,     *)
(* Orphans) leaves X a child of P and makes exactly one facade call,        *)
(* move_to with X's remote id, P's remote id and N.                         *)
C14_RenameMovesAndCallsOnce ==
    (/\ pc = "ready"
     /\ last_op.op = "rename"
     /\ last_op.arg.id \in DOMAIN files
     /\ file_drive_id(files[last_op.arg.id]) # NoId
     /\ last_op.arg.new_parent \in {ROOT_INODE, TRASH_INODE, SHARED_INODE, ORPHANS_INODE}
     /\ last_op.arg.new_parent \in DOMAIN files
     /\ last_op.arg.new_parent # last_op.arg.id) =>
        /\ DirectChild(last_op.arg.id, last_op.arg.new_parent)
        /\ last_op.calls = << <<"move_to", file_drive_id(files[last_op.arg.id]),
                                file_drive_id(files[last_op.arg.new_parent]),
                                last_op.arg.new_name>> >>

(* C15: when the facade accepts the creation and P resolves, create_file(F, *)
(* P) has asked the facade once, the File stored under F.inode is F with    *)
(* the returned remote id, F is a child of P, and the remote-id map sends   *)
(* the returned id to F.inode.                                              *)
C15_CreateStoresFileWithId ==
    (/\ pc = "ready"
     /\ last_op.op = "create_file"
     /\ last_op.res = "ok"
     /\ last_op.arg.parent # 0) =>
        /\ last_op.arg.new_id # NoId
        /\ last_op.calls = << <<"create", last_op.arg.file.drive_file.name,
                                last_op.arg.file.drive_file.parent>> >>
        /\ get_file(St, InodeRef(last_op.arg.inode)) = last_op.arg.inode
        /\ files[last_op.arg.inode] = set_drive_id(last_op.arg.file, last_op.arg.new_id)
        /\ DirectChild(last_op.arg.inode, last_op.arg.parent)
        /\ MapGet(drive_ids, last_op.arg.new_id) = last_op.arg.inode

(* a file has just been created under a directory other than the root *)
C15_Witness ==
    /\ pc = "ready"
    /\ last_op.op = "create_file"
    /\ last_op.res = "ok"
    /\ last_op.arg.parent > ORPHANS_INODE
    /\ last_op.arg.inode \in DOMAIN files
    /\ file_drive_id(files[last_op.arg.inode]) = last_op.arg.new_id

(* C16: when the facade's create call fails, create_file returns the error   *)
(* and the tree, the inode->File map, the handle map and the remote-id map   *)
(* are what they were before the call.                                       *)
C16_FailedCreateChangesNothing ==
    [][(/\ ops' = ops + 1
        /\ last_op'.op = "create_file"
        /\ last_op'.arg.new_id = NoId) =>
          /\ last_op'.res = "err"
          /\ pc' = "ready"
          /\ UNCHANGED <<tree, files, node_ids, drive_ids>>
      ]_vars

(* a create_file whose request the facade refused has returned, asked with   *)
(* an existing parent                                                        *)
C16_Witness ==
    /\ pc = "ready"
    /\ last_op.op = "create_file"
    /\ last_op.res = "err"
    /\ last_op.arg.new_id = NoId
    /\ last_op.arg.parent \in DOMAIN files
    /\ Len(last_op.calls) = 1
    /\ last_op.arg.inode \notin DOMAIN files

(* C17: a step in which move_file_to_trash(X, also_on_drive) returns Ok for *)
(* a file X that has a remote id leaves X below Trash with every node that  *)
(* was below X still below it; with also_on_drive the facade got one        *)
(* move_to_trash with X's remote id and X's trashed flag is set, without it *)
(* the facade got nothing and the flag is what it was.                      *)
C17_TrashKeepsSubtree ==
    [][(/\ ops' = ops + 1
        /\ last_op'.op = "move_file_to_trash"
        /\ last_op'.res = "ok"
        /\ last_op'.arg.id \in DOMAIN files
        /\ file_drive_id(files[last_op'.arg.id]) # NoId) =>
          /\ node_ids'[last_op'.arg.id] \in
                 BelowIn(tree', node_ids'[TRASH_INODE], Len(tree'.nodes))
          /\ BelowIn(tree, node_ids[last_op'.arg.id], Len(tree.nodes)) \subseteq
                 BelowIn(tree', node_ids'[last_op'.arg.id], Len(tree'.nodes))
          /\ last_op'.arg.also_on_drive =>
                /\ last_op'.calls =
                       << <<"move_to_trash", file_drive_id(files[last_op'.arg.id])>> >>
                /\ file_is_trashed_flag(files'[last_op'.arg.id])
          /\ ~last_op'.arg.also_on_drive =>
                /\ last_op'.calls = <<>>
                /\ file_is_trashed_flag(files'[last_op'.arg.id])
                       = file_is_trashed_flag(files[last_op'.arg.id])
      ]_vars

(* the children of directory p, as get_children lists them, whose stored     *)
(* name is name                                                              *)
NamedKids(s, p, name) ==
    SelectSeq(get_children(s, InodeRef(p)).kids, LAMBDA k : s.files[k].name = name)

(* C18: with rename_identical_files enabled, a step in which create_file     *)
(* adds a file F under a parent that has exactly one child of F's name, that *)
(* child without a duplicate index, gives F the index 2 and leaves the       *)
(* older sibling without one.                                                *)
C18_SecondCreateGetsIndex2 ==
    [][(/\ ops' = ops + 1
        /\ rename_identical_files
        /\ last_op'.op = "create_file"
        /\ last_op'.res = "ok"
        /\ last_op'.arg.parent \in DOMAIN node_ids
        /\ get_children(St, InodeRef(last_op'.arg.parent)).res = "some"
        /\ Len(NamedKids(St, last_op'.arg.parent, last_op'.arg.file.name)) = 1
        /\ files[NamedKids(St, last_op'.arg.parent,
                           last_op'.arg.file.name)[1]].identical_name_id = 0) =>
          /\ files'[last_op'.arg.inode].identical_name_id = 2
          /\ files'[NamedKids(St, last_op'.arg.parent,
                              last_op'.arg.file.name)[1]].identical_name_id = 0
      ]_vars

(* C19: with rename_identical_files enabled, a step in which delete(X)       *)
(* returns Ok, X having had exactly one sibling Y of the same name and one   *)
(* of the two a duplicate index, leaves Y without a duplicate index.         *)
C19_DeleteClearsSurvivorIndex ==
    [][(/\ ops' = ops + 1
        /\ rename_identical_files
        /\ last_op'.op = "delete"
        /\ last_op'.res = "ok"
        /\ last_op'.arg \in DOMAIN files) =>
          \A p \in DOMAIN files, y \in DOMAIN files \ {last_op'.arg} :
             (/\ DirectChild(last_op'.arg, p)
              /\ DirectChild(y, p)
              /\ get_children(St, InodeRef(p)).res = "some"
              /\ files[y].name = files[last_op'.arg].name
              /\ Len(NamedKids(St, p, files[y].name)) = 2
              /\ \/ files[y].identical_name_id # 0
                 \/ files[last_op'.arg].identical_name_id # 0
              /\ y \in DOMAIN files') =>
                files'[y].identical_name_id = 0
      ]_vars

(* C20: with rename_identical_files enabled, in every state no two children  *)
(* of one directory have the same name and the same duplicate index.         *)
C20_SiblingsDistinguishable ==
    (pc = "ready" /\ rename_identical_files) =>
        \A p \in DOMAIN files, i \in DOMAIN files, j \in DOMAIN files :
           (i # j /\ DirectChild(i, p) /\ DirectChild(j, p)) =>
               file_name(files[i]) # file_name(files[j])

(* the references of every form a caller may pass to a lookup *)
LookupRefs ==
    {InodeRef(i) : i \in 1..MaxInode} \cup
    {DriveRef(d) : d \in DriveIds \cup {RootId, UnknownId}} \cup
    {NodeRef(n) : n \in 1..MaxInode} \cup
    {ParentAndName(p, <<n, 0>>) : p \in 1..MaxInode, n \in Names}

(* C21: in every state of a running manager and for a reference of any      *)
(* form, get_children returns None or the children and contains returns a   *)
(* boolean: neither aborts.                                                 *)
C21_LookupsNeverAbort ==
    pc = "ready" =>
        \A ref \in LookupRefs :
            /\ get_children(St, ref).res \in {"none", "some"}
            /\ contains(St, ref) \in BOOLEAN

(* C22: a step in which write is called with a reference whose remote id     *)
(* cannot be resolved asks nothing of the facade, leaves the manager's       *)
(* fields as they were and leaves the manager running.                       *)
C22_WriteFailsSilently ==
    [][(/\ ops' = ops + 1
        /\ last_op'.op = "write"
        /\ last_op'.arg.drive_id = NoId) =>
          /\ pc' = "ready"
          /\ last_op'.calls = <<>>
          /\ UNCHANGED <<tree, files, node_ids, drive_ids, last_inode>>
      ]_vars

(* in the fields s: inode i has a File and a handle to a live node that      *)
(* holds it                                                                  *)
PresentIn(s, i) ==
    /\ i \in DOMAIN s.files
    /\ i \in DOMAIN s.node_ids
    /\ is_valid_node_id(s.tree, s.node_ids[i])
    /\ s.tree.nodes[s.node_ids[i]].data = i

(* in the fields s: i and p are present and i's node is a child of p's node  *)
ChildIn(s, i, p) ==
    /\ PresentIn(s, i)
    /\ PresentIn(s, p)
    /\ s.tree.nodes[s.node_ids[i]].parent = s.node_ids[p]
    /\ \E k \in 1..Len(s.tree.nodes[s.node_ids[p]].children) :
          s.tree.nodes[s.node_ids[p]].children[k] = s.node_ids[i]

(* the inode the remote id d names in the fields s, 0 when none *)
InodeOf(s, d) == MapGet(s.drive_ids, d)

(* C23: a step in which a non-skipped sync applies one change whose          *)
(* descriptor is trashed, for a file A that is present locally, returns Ok,  *)
(* leaves A a child of Trash and every former child of A a child of A, and   *)
(* asks the facade for nothing but the changes.                              *)
C23_SyncTrashesLocallyOnly ==
    [][(/\ ops' = ops + 1
        /\ last_op'.op = "sync"
        /\ Len(last_op'.arg) = 1
        /\ last_op'.arg[1].has_file
        /\ last_op'.arg[1].file.trashed
        /\ PresentIn(St, InodeOf(St, last_op'.arg[1].file_id))) =>
          /\ last_op'.res = "ok"
          /\ last_op'.calls = << <<"get_all_changes">> >>
          /\ ChildIn(StNext, InodeOf(St, last_op'.arg[1].file_id), TRASH_INODE)
          /\ \A i \in DOMAIN files :
                ChildIn(St, i, InodeOf(St, last_op'.arg[1].file_id)) =>
                    ChildIn(StNext, i, InodeOf(St, last_op'.arg[1].file_id))
      ]_vars

(* a change that carries a descriptor neither trashed nor flagged removed *)
PlainChange(ch) == ch.has_file /\ ~ch.file.trashed /\ ~ch.removed

C25_SyncUpdatesAndReparents ==
    [][(/\ ops' = ops + 1
        /\ last_op'.op = "sync"
        /\ Len(last_op'.arg) = 1
        /\ PlainChange(last_op'.arg[1])
        /\ PresentIn(St, InodeOf(St, last_op'.arg[1].file_id))
        /\ PresentIn(St, InodeOf(St, last_op'.arg[1].file.parent))) =>
          /\ last_op'.res = "ok"
          /\ InodeOf(StNext, last_op'.arg[1].file_id) = InodeOf(St, last_op'.arg[1].file_id)
          /\ files'[InodeOf(St, last_op'.arg[1].file_id)].inode
                 = InodeOf(St, last_op'.arg[1].file_id)
          /\ files'[InodeOf(St, last_op'.arg[1].file_id)].drive_file = last_op'.arg[1].file
          /\ ChildIn(StNext, InodeOf(St, last_op'.arg[1].file_id),
                     InodeOf(St, last_op'.arg[1].file.parent))
      ]_vars

(* C26: with rename_identical_files enabled, after rename(X, P, N) has       *)
(* returned Ok X's duplicate index is the number of children of P named N,   *)
(* X included, when that number is greater than 1, and is absent when X is   *)
(* the only child of P named N.                                              *)
C26_RenameRecountsIndex ==
    (/\ pc = "ready"
     /\ rename_identical_files
     /\ last_op.op = "rename"
     /\ last_op.res = "ok"
     /\ ChildIn(St, last_op.arg.id, last_op.arg.new_parent)) =>
        files[last_op.arg.id].identical_name_id =
            IF Len(NamedKids(St, last_op.arg.new_parent, last_op.arg.new_name)) > 1
            THEN Len(NamedKids(St, last_op.arg.new_parent, last_op.arg.new_name))
            ELSE 0

(* C27: a step in which rename returns an error without having called the    *)
(* facade leaves the tree and the File records as they were.                 *)
C27_FailedRenameChangesNothing ==
    [][(/\ ops' = ops + 1
        /\ last_op'.op = "rename"
        /\ last_op'.res = "err"
        /\ last_op'.calls = <<>>) =>
          UNCHANGED <<tree, files>>
      ]_vars

(* C28: a step in which a non-skipped sync applies one change whose          *)
(* descriptor is trashed, for a file that was unknown and whose first parent *)
(* is present locally, or for a file that was present locally and not        *)
(* trashed, leaves file_is_trashed true for the change's remote id.          *)
C28_SyncSetsTrashedFlag ==
    [][(/\ ops' = ops + 1
        /\ last_op'.op = "sync"
        /\ Len(last_op'.arg) = 1
        /\ last_op'.arg[1].has_file
        /\ last_op'.arg[1].file.trashed
        /\ \/ /\ last_op'.arg[1].file_id \notin DOMAIN drive_ids
              /\ PresentIn(St, InodeOf(St, last_op'.arg[1].file.parent))
           \/ /\ PresentIn(St, InodeOf(St, last_op'.arg[1].file_id))
              /\ file_is_trashed(St, DriveRef(last_op'.arg[1].file_id)) = "false") =>
          file_is_trashed(StNext, DriveRef(last_op'.arg[1].file_id)) = "true"
      ]_vars

====
